---- MODULE Spec2Model ----
(***************************************************************************)
(* Mercia client registry: the persistence adapter (dbcenter.py) and the   *)
(* HTTP service (app.py).                                                  *)
(*                                                                         *)
(* Three specifications share the state:                                   *)
(*   Spec      the service as uvicorn runs it, one handler per action      *)
(*             (startup, POST /api/clients, GET /api/clients, shutdown),   *)
(*             in hosted-table mode and in direct-pool mode;               *)
(*   PoolSpec  direct-pool mode with the handlers of concurrent worker     *)
(*             threads interleaved at get_conn / statement / put_conn;     *)
(*   LibSpec   the functions of dbcenter called in any order by one        *)
(*             caller.                                                     *)
(*                                                                         *)
(* Python values: a str is a sequence of one-character strings, None is    *)
(* the empty tuple and a value that may be None is wrapped in a 1-tuple.   *)
(***************************************************************************)
EXTENDS Integers, Sequences, FiniteSets, TLC

\* ------------------------------------------------------------- bounds
\* rows the table can hold before the backend refuses an insert
MaxRows == 2
\* explicit ?limit= values are 0..MaxLimit
MaxLimit == 2
\* pools one process may construct before the model stops counting
MaxPools == 2
\* concurrent worker threads beyond the pool maximum
ExtraWorkers == 1

\* ---------------------------------------------------- program constants
MINCONN == 1
MAXCONN == 5
DefaultLimit == 100

\* ------------------------------------------------------- python values
None == << >>
Some(v) == << v >>
IsNone(o) == o = << >>
Val(o) == o[1]

Min(a, b) == IF a <= b THEN a ELSE b

Whitespace == {" ", "\t"}

RECURSIVE LStrip(_)
LStrip(s) ==
    IF s # << >> /\ Head(s) \in Whitespace THEN LStrip(Tail(s)) ELSE s

RECURSIVE RStrip(_)
RStrip(s) ==
    IF s # << >> /\ s[Len(s)] \in Whitespace
    THEN RStrip(SubSeq(s, 1, Len(s) - 1))
    ELSE s

\* pydantic constr(strip_whitespace=True)
Strip(s) == RStrip(LStrip(s))

\* Optional[constr(strip_whitespace=True)]
StripOpt(o) == IF IsNone(o) THEN None ELSE Some(Strip(Val(o)))

\* a mutant of ClientIn: min_length is checked on the raw name
ClientInNoStrip(body) ==
    IF Len(body.name) >= 1
    THEN [ok |-> TRUE,
          name |-> Strip(body.name),
          address |-> StripOpt(body.address),
          phone |-> StripOpt(body.phone)]
    ELSE [ok |-> FALSE, name |-> << >>, address |-> None, phone |-> None]

\* ClientIn: the validated payload, or a validation error
ClientIn(body) ==
    IF Len(Strip(body.name)) >= 1
    THEN [ok |-> TRUE,
          name |-> Strip(body.name),
          address |-> StripOpt(body.address),
          phone |-> StripOpt(body.phone)]
    ELSE [ok |-> FALSE, name |-> << >>, address |-> None, phone |-> None]

\* str(x) of an error value that may be None
PyStr(o) == IF IsNone(o) THEN <<"None">> ELSE Val(o)

\* bool(x) of a value that may be None, a list or a str
Truthy(o) == ~IsNone(o) /\ Val(o) # << >>


\* ---------------------------------------------------------- the world
\* What the adapter functions read and write: the module globals _pool and
\* _supabase, the number of pools constructed so far, the backend's clients
\* table (direct database or hosted service), and the adapter functions
\* entered by the handler that is running.
Called(w, f) == [w EXCEPT !.calls = @ \cup {f}]

NoExc == [type |-> "", msg |-> << >>]
Ok(w, v) == [w |-> w, ok |-> TRUE, val |-> v, exc |-> NoExc]
Raise(w, type, msg) ==
    [w |-> w, ok |-> FALSE, val |-> None, exc |-> [type |-> type, msg |-> msg]]

\* What the environment decides during one call: whether the database
\* accepts a new connection, whether the statement succeeds, and what the
\* hosted service replies.
Shapes == {"obj", "dict"}
NoReply == [kind |-> "raise", shape |-> "obj", data |-> None, error |-> None]
ServiceErrors == {None, Some(<<"permission denied">>)}
HostedReplies ==
    {NoReply}
    \cup {[kind |-> "rows", shape |-> s, data |-> None, error |-> None] : s \in Shapes}
    \cup {[kind |-> "nodata", shape |-> s, data |-> d, error |-> e] :
            s \in Shapes, d \in {None, Some(<< >>)}, e \in ServiceErrors}
Oracles == [connect : BOOLEAN, stmt : BOOLEAN, reply : HostedReplies]
DirectOracles == {o \in Oracles : o.reply = NoReply}
HostedOracles == {o \in Oracles : o.connect /\ o.stmt}

\* ----------------------------------------------------- connection pool
\* psycopg2 SimpleConnectionPool(minconn, maxconn): opens minconn connections
NewPool == [idle |-> MINCONN, used |-> 0]

\* SimpleConnectionPool.getconn: an idle connection, else a new one while
\* fewer than maxconn are checked out, else PoolError at once (no waiting)
getconn(pl, o) ==
    IF pl.idle > 0
    THEN [ok |-> TRUE, pool |-> [idle |-> pl.idle - 1, used |-> pl.used + 1],
          exc |-> NoExc]
    ELSE IF pl.used = MAXCONN
    THEN [ok |-> FALSE, pool |-> pl,
          exc |-> [type |-> "PoolError", msg |-> <<"connection pool exhausted">>]]
    ELSE IF ~o.connect
    THEN [ok |-> FALSE, pool |-> pl,
          exc |-> [type |-> "OperationalError", msg |-> <<"could not connect to server">>]]
    ELSE [ok |-> TRUE, pool |-> [idle |-> pl.idle, used |-> pl.used + 1],
          exc |-> NoExc]

\* SimpleConnectionPool.putconn: kept idle while fewer than minconn are idle,
\* closed otherwise; either way no longer checked out
putconn(pl) ==
    [idle |-> IF pl.idle < MINCONN THEN pl.idle + 1 ELSE pl.idle,
     used |-> pl.used - 1]

init_pool(w, env, o) ==
    LET w1 == Called(w, "init_pool") IN
    IF ~IsNone(w1.pool) THEN Ok(w1, None)
    ELSE IF ~env.psycopg2
    THEN Raise(w1, "RuntimeError", <<"Pacote psycopg2-binary nao esta instalado">>)
    ELSE IF ~o.connect
    THEN Raise(w1, "OperationalError", <<"could not connect to server">>)
    ELSE Ok([w1 EXCEPT !.pool = Some(NewPool), !.made = @ + 1], None)

get_conn(w, env, o) ==
    LET w1 == Called(w, "get_conn")
        i == IF IsNone(w1.pool) THEN init_pool(w1, env, o) ELSE Ok(w1, None)
    IN  IF ~i.ok THEN i
        ELSE LET g == getconn(Val(i.w.pool), o) IN
             IF g.ok
             THEN Ok([i.w EXCEPT !.pool = Some(g.pool)], None)
             ELSE Raise(i.w, g.exc.type, g.exc.msg)

\* a mutant of put_conn: the connection is never handed back
PutConnForgets(w) == Called(w, "put_conn")

put_conn(w) ==
    LET w1 == Called(w, "put_conn") IN
    IF ~IsNone(w1.pool)
    THEN [w1 EXCEPT !.pool = Some(putconn(Val(w1.pool)))]
    ELSE w1

close_pool(w) ==
    LET w1 == Called(w, "close_pool") IN
    IF ~IsNone(w1.pool) THEN [w1 EXCEPT !.pool = None] ELSE w1

init_supabase(w, env) ==
    LET w1 == Called(w, "init_supabase") IN
    IF w1.supabase THEN Ok(w1, None)
    ELSE IF ~env.supabase
    THEN Raise(w1, "RuntimeError", <<"Pacote supabase nao esta instalado">>)
    ELSE Ok([w1 EXCEPT !.supabase = TRUE], None)


\* ------------------------------------------------------ the clients table
\* the row an INSERT stores: id from the serial, created_at from now()
NewRow(w, name, address, phone) ==
    [id |-> w.nextId, name |-> name, address |-> address, phone |-> phone,
     created_at |-> w.clock]

Stored(w, row) ==
    [w EXCEPT !.rows = @ \cup {row}, !.nextId = @ + 1, !.clock = @ + 1]

HasRoom(w) == w.table /\ Cardinality(w.rows) < MaxRows

Latest(S) == CHOOSE r \in S : \A q \in S : q.created_at <= r.created_at
RECURSIVE OrderDesc(_)
OrderDesc(S) ==
    IF S = {} THEN << >> ELSE <<Latest(S)>> \o OrderDesc(S \ {Latest(S)})

Limit(seq, n) == SubSeq(seq, 1, Min(n, Len(seq)))

\* SELECT ... FROM clients ORDER BY created_at DESC LIMIT limit, and its
\* hosted twin select('*').order('created_at', desc=True).limit(limit)
SelectClients(S, limit) == Limit(OrderDesc(S), limit)

\* ------------------------------------------------- hosted-service replies
\* the response object execute() hands back for a reply
Response(reply, data) ==
    [shape |-> reply.shape,
     data |-> IF reply.kind = "rows" THEN Some(data) ELSE reply.data,
     error |-> reply.error]

AttributeError == [type |-> "AttributeError", msg |-> <<"object has no attribute 'get'">>]

\* getattr(res, f, None) or res.get(f): a dict has no attribute f, an
\* object has no method get
AttrOrGet(res, f) ==
    LET a == IF res.shape = "obj" THEN res[f] ELSE None IN
    IF Truthy(a) THEN [ok |-> TRUE, val |-> a, exc |-> NoExc]
    ELSE IF res.shape = "obj" THEN [ok |-> FALSE, val |-> None, exc |-> AttributeError]
    ELSE [ok |-> TRUE, val |-> res[f], exc |-> NoExc]

\* try: data = getattr(res, 'data', None) or res.get('data')
\* except Exception: data = None
DataOf(res) == IF AttrOrGet(res, "data").ok THEN AttrOrGet(res, "data").val ELSE None


\* the tuple a cursor returns for a row, in the column order of the SELECT
RowTuple(r) == <<r.id, r.name, r.address, r.phone, r.created_at>>

\* a mutant of RowDict: address and phone read from each other's column
RowDictSwapped(t) ==
    [id |-> t[1], name |-> t[2], address |-> t[4], phone |-> t[3], created_at |-> t[5]]

\* the dict get_clients builds from a cursor row
RowDict(t) ==
    [id |-> t[1], name |-> t[2], address |-> t[3], phone |-> t[4], created_at |-> t[5]]

RowDicts(seq) == [i \in 1..Len(seq) |-> RowDict(RowTuple(seq[i]))]

APIError == [type |-> "APIError", msg |-> <<"service request failed">>]
DatabaseError == [type |-> "DatabaseError", msg |-> <<"statement failed">>]

\* ----------------------------------------------------- persistence adapter
create_clients_table(w, env, o) ==
    LET w0 == Called(w, "create_clients_table") IN
    IF env.hosted
    THEN LET s == init_supabase(w0, env) IN
         IF ~s.ok THEN s
         ELSE IF o.reply.kind = "rows" /\ s.w.table THEN Ok(s.w, TRUE)
         ELSE Ok(s.w, FALSE)
    ELSE LET c == get_conn(w0, env, o) IN
         IF ~c.ok THEN c
         ELSE IF o.stmt THEN Ok(put_conn([c.w EXCEPT !.table = TRUE]), TRUE)
         ELSE Raise(put_conn(c.w), DatabaseError.type, DatabaseError.msg)

\* the hosted branch of insert_client once the service has replied
InsertReplied(w, res) ==
    LET data == DataOf(res) IN
    IF ~Truthy(data)
    THEN LET e == AttrOrGet(res, "error") IN
         IF ~e.ok THEN Raise(w, e.exc.type, e.exc.msg)
         ELSE Raise(w, "RuntimeError",
                    <<"Falha ao inserir no Supabase: ">> \o PyStr(e.val))
    ELSE Ok(w, [id |-> Val(data)[1].id, created_at |-> Val(data)[1].created_at])

insert_client(w, env, o, name, address, phone) ==
    LET w0 == Called(w, "insert_client") IN
    IF env.hosted
    THEN LET s == init_supabase(w0, env)
             row == NewRow(s.w, name, address, phone)
         IN  IF ~s.ok THEN s
             ELSE IF o.reply.kind = "raise" \/ (o.reply.kind = "rows" /\ ~HasRoom(s.w))
             THEN Raise(s.w, APIError.type, APIError.msg)
             ELSE IF o.reply.kind = "rows"
             THEN InsertReplied(Stored(s.w, row), Response(o.reply, <<row>>))
             ELSE InsertReplied(s.w, Response(o.reply, << >>))
    ELSE LET c == get_conn(w0, env, o)
             row == NewRow(c.w, name, address, phone)
         IN  IF ~c.ok THEN c
             ELSE IF o.stmt /\ HasRoom(c.w)
             THEN Ok(put_conn(Stored(c.w, row)),
                     [id |-> RowTuple(row)[1], created_at |-> RowTuple(row)[5]])
             ELSE Raise(put_conn(c.w), DatabaseError.type, DatabaseError.msg)

\* the hosted branch of get_clients once the service has replied
ListReplied(w, res) ==
    LET data == DataOf(res) IN
    IF IsNone(data)
    THEN LET e == AttrOrGet(res, "error") IN
         IF ~e.ok THEN Raise(w, e.exc.type, e.exc.msg)
         ELSE Raise(w, "RuntimeError",
                    <<"Falha ao listar clientes no Supabase: ">> \o PyStr(e.val))
    ELSE Ok(w, Val(data))

get_clients(w, env, o, limit) ==
    LET w0 == Called(w, "get_clients") IN
    IF env.hosted
    THEN LET s == init_supabase(w0, env) IN
         IF ~s.ok THEN s
         ELSE IF o.reply.kind = "raise" \/ (o.reply.kind = "rows" /\ ~s.w.table)
         THEN Raise(s.w, APIError.type, APIError.msg)
         ELSE ListReplied(s.w, Response(o.reply, SelectClients(s.w.rows, limit)))
    ELSE LET c == get_conn(w0, env, o) IN
         IF ~c.ok THEN c
         ELSE IF o.stmt /\ c.w.table
         THEN Ok(put_conn(c.w), RowDicts(SelectClients(c.w.rows, limit)))
         ELSE Raise(put_conn(c.w), DatabaseError.type, DatabaseError.msg)

\* ------------------------------------------------------------ HTTP service
NoResp == [status |-> 0, detail |-> << >>, body |-> << >>]
Http(status, detail, body) == [status |-> status, detail |-> detail, body |-> body]

\* ClientOut as the handlers build it: created_at through str()
ClientOut(id, created_at, name, address, phone) ==
    [id |-> id, name |-> name, address |-> address, phone |-> phone,
     created_at |-> ToString(created_at)]

startup_event(w, env, o1, o2) ==
    LET i == init_pool(w, env, o1) IN
    IF ~i.ok THEN i ELSE create_clients_table(i.w, env, o2)

shutdown_event(w) == close_pool(w)

\* POST /api/clients; a body ClientIn rejects never reaches the handler
create_client(w, env, o, body) ==
    LET payload == ClientIn(body) IN
    IF ~payload.ok
    THEN [w |-> w, resp |-> Http(422, <<"validation error">>, << >>)]
    ELSE LET r == insert_client(w, env, o, payload.name, payload.address, payload.phone) IN
         IF r.ok
         THEN [w |-> r.w,
               resp |-> Http(200, << >>,
                             <<ClientOut(r.val.id, r.val.created_at, payload.name,
                                         payload.address, payload.phone)>>)]
         ELSE [w |-> r.w, resp |-> Http(500, r.exc.msg, << >>)]

\* GET /api/clients?limit=
list_clients(w, env, o, limit) ==
    LET r == get_clients(w, env, o, IF IsNone(limit) THEN DefaultLimit ELSE Val(limit)) IN
    IF r.ok
    THEN [w |-> r.w,
          resp |-> Http(200, << >>,
                        [i \in 1..Len(r.val) |->
                            ClientOut(r.val[i].id, r.val[i].created_at, r.val[i].name,
                                      r.val[i].address, r.val[i].phone)])]
    ELSE [w |-> r.w, resp |-> Http(500, r.exc.msg, << >>)]


\* ------------------------------------------------------------------ state
VARIABLES
    env,         \* configuration and runtime: hosted (SUPABASE_URL and
                 \* SUPABASE_KEY both set), psycopg2 and supabase importable
    phase,       \* "new", "serving", "stopped", or "failed" (startup raised)
    startupExc,  \* the exception that ended startup, if any
    ensured,     \* what create_clients_table returned to startup
    pool,        \* dbcenter._pool: None or Some([idle, used])
    made,        \* SimpleConnectionPool objects constructed by this process
    supabase,    \* dbcenter._supabase is set
    table,       \* the clients table exists in the backend
    rows,        \* its rows
    nextId,      \* the serial behind id
    clock,       \* the backend's now()
    calls,       \* adapter functions entered by the last handler
    req,         \* the last request
    oracle,      \* what the environment decided while it was handled
    resp,        \* the last response
    created,     \* each accepted POST /api/clients: the body sent, the body returned
    pc           \* PoolSpec: where each thread stands in its adapter call

vars == <<env, phase, startupExc, ensured, pool, made, supabase, table, rows, nextId,
          clock, calls, req, oracle, resp, created, pc>>

\* ----------------------------------------------------------------- inputs
Body(name, address, phone) == [name |-> name, address |-> address, phone |-> phone]
Bodies ==
    {Body(<< >>, None, None),
     Body(<<"\t", " ">>, Some(<<"x">>), None),
     Body(<<" ", "a", " ">>, None, None),
     Body(<<"a", " ", "b">>, Some(<<" ", "x", " ">>), Some(<<" ">>)),
     Body(<<"c">>, None, Some(<<"9", "\t">>))}
NoBody == [name |-> << >>, address |-> None, phone |-> None]
Limits == {None} \cup {Some(n) : n \in 0..MaxLimit}
Request(op, body, limit) == [op |-> op, body |-> body, limit |-> limit]

Workers == 1..(MAXCONN + ExtraWorkers)
Main == 0
Threads == {Main} \cup Workers

InsertOracles(e) == IF e.hosted THEN HostedOracles ELSE DirectOracles
SelectOracles(e) ==
    IF e.hosted
    THEN {o \in HostedOracles : o.reply.kind = "nodata" => IsNone(o.reply.data)}
    ELSE DirectOracles
PoolOracles == {o \in DirectOracles : o.stmt}
StartupOracles(e) == IF e.hosted THEN {o \in Oracles : o.stmt} ELSE DirectOracles

\* the world a handler starts in, and the one it leaves
W ==
    [pool |-> pool, made |-> made, supabase |-> supabase, table |-> table,
     rows |-> rows, nextId |-> nextId, clock |-> clock, calls |-> {}]

Commit(w) ==
    /\ w.made <= MaxPools
    /\ pool' = w.pool
    /\ made' = w.made
    /\ supabase' = w.supabase
    /\ table' = w.table
    /\ rows' = w.rows
    /\ nextId' = w.nextId
    /\ clock' = w.clock
    /\ calls' = w.calls

Init ==
    /\ env \in [hosted : BOOLEAN, psycopg2 : BOOLEAN, supabase : BOOLEAN]
    /\ phase = "new"
    /\ startupExc = NoExc
    /\ ensured = "not called"
    /\ pool = None
    /\ made = 0
    /\ supabase = FALSE
    /\ table \in BOOLEAN
    /\ rows = {}
    /\ nextId = 1
    /\ clock = 1
    /\ calls = {}
    /\ req = Request("none", NoBody, None)
    /\ oracle = [connect |-> TRUE, stmt |-> TRUE, reply |-> NoReply]
    /\ resp = NoResp
    /\ created = {}
    /\ pc = [t \in Threads |-> "idle"]

\* ------------------------------------------- Spec: one handler per action
\* uvicorn runs startup before it serves; a startup that raises ends the process
Startup ==
    /\ phase = "new"
    /\ \E o \in StartupOracles(env) :
         LET r == startup_event(W, env, o, o) IN
         /\ Commit(r.w)
         /\ oracle' = o
         /\ phase' = IF r.ok THEN "serving" ELSE "failed"
         /\ startupExc' = r.exc
         /\ ensured' = IF "create_clients_table" \notin r.w.calls THEN "not called"
                        ELSE IF ~r.ok THEN "raised"
                        ELSE IF r.val THEN "True" ELSE "False"
    /\ req' = Request("startup", NoBody, None)
    /\ resp' = NoResp
    /\ UNCHANGED <<env, created, pc>>

CreateClient ==
    /\ phase = "serving"
    /\ \E body \in Bodies, o \in InsertOracles(env) :
         LET r == create_client(W, env, o, body) IN
         /\ Commit(r.w)
         /\ req' = Request("create", body, None)
         /\ oracle' = o
         /\ resp' = r.resp
         /\ created' = IF r.resp.status = 200
                       THEN created \cup {[sent |-> body, out |-> r.resp.body[1]]}
                       ELSE created
    /\ UNCHANGED <<env, phase, startupExc, ensured, pc>>

ListClients ==
    /\ phase = "serving"
    /\ \E limit \in Limits, o \in SelectOracles(env) :
         LET r == list_clients(W, env, o, limit) IN
         /\ Commit(r.w)
         /\ req' = Request("list", NoBody, limit)
         /\ oracle' = o
         /\ resp' = r.resp
    /\ UNCHANGED <<env, phase, startupExc, ensured, created, pc>>

\* uvicorn runs shutdown once no request is in flight, and serves none after
Shutdown ==
    /\ phase = "serving"
    /\ Commit(shutdown_event(W))
    /\ phase' = "stopped"
    /\ req' = Request("shutdown", NoBody, None)
    /\ resp' = NoResp
    /\ UNCHANGED <<env, startupExc, ensured, oracle, created, pc>>

\* hosted mode: the operator creates the table in the service's SQL panel
OperatorCreatesTable ==
    /\ env.hosted
    /\ ~table
    /\ table' = TRUE
    /\ req' = Request("provision", NoBody, None)
    /\ resp' = NoResp
    /\ UNCHANGED <<env, phase, startupExc, ensured, pool, made, supabase, rows, nextId,
                   clock, calls, oracle, created, pc>>

Next == Startup \/ CreateClient \/ ListClients \/ Shutdown \/ OperatorCreatesTable

Spec == Init /\ [][Next]_vars


\* ------------------------- PoolSpec: direct-pool mode, threads interleaved
\* FastAPI runs each def handler on a thread of its pool, so the direct
\* branches of the adapter interleave where they touch the pool: at
\* conn = get_conn() and at put_conn(conn) in finally.  PoolSpec is the
\* service projected onto the pool: the statement inside try is its outcome
\* (it returns or it raises) and is decided in the step that leaves try, a
\* response is its status and detail; what the statement reads or writes in
\* the table is the business of Spec.  getconn and putconn are one step each.
PoolInit == Init /\ ~env.hosted /\ ~env.supabase

\* what a step of a thread leaves in the module globals
CommitPool(w) ==
    /\ w.made <= MaxPools
    /\ pool' = w.pool
    /\ made' = w.made
    /\ UNCHANGED <<supabase, rows, nextId, clock, calls>>

\* a mutant of HandlerRaised: the handler tries again instead of answering
HandlerRetries(exc) == [pc |-> "called", resp |-> Http(500, exc.msg, << >>)]

\* except Exception as e: raise HTTPException(status_code=500, detail=str(e))
HandlerRaised(exc) == [pc |-> "idle", resp |-> Http(500, exc.msg, << >>)]

\* startup_event up to its call of create_clients_table, on the main thread
PStartup ==
    /\ phase = "new"
    /\ \E o \in PoolOracles :
         LET r == init_pool(W, env, o) IN
         /\ CommitPool(r.w)
         /\ phase' = IF r.ok THEN "starting" ELSE "failed"
         /\ startupExc' = r.exc
         /\ pc' = IF r.ok THEN [pc EXCEPT ![Main] = "called"] ELSE pc
    /\ req' = Request("startup", NoBody, None)
    /\ UNCHANGED <<env, ensured, table, oracle, resp, created>>

\* a request reaches a free worker thread, which enters insert_client or
\* get_clients
PEnter(t) ==
    /\ t \in Workers
    /\ phase = "serving"
    /\ pc[t] = "idle"
    /\ pc' = [pc EXCEPT ![t] = "called"]
    /\ UNCHANGED <<env, phase, startupExc, ensured, pool, made, supabase, table,
                   rows, nextId, clock, calls, req, oracle, resp, created>>

\* conn = get_conn()
PGetConn(t) ==
    /\ pc[t] = "called"
    /\ \E o \in PoolOracles :
         LET r == get_conn(W, env, o) IN
         /\ CommitPool(r.w)
         /\ IF r.ok
            THEN /\ pc' = [pc EXCEPT ![t] = "try"]
                 /\ UNCHANGED <<phase, startupExc, ensured, resp>>
            ELSE IF t = Main
            THEN /\ pc' = [pc EXCEPT ![t] = "idle"]
                 /\ phase' = "failed"
                 /\ startupExc' = r.exc
                 /\ ensured' = "raised"
                 /\ UNCHANGED resp
            ELSE /\ pc' = [pc EXCEPT ![t] = HandlerRaised(r.exc).pc]
                 /\ resp' = HandlerRaised(r.exc).resp
                 /\ UNCHANGED <<phase, startupExc, ensured>>
    /\ UNCHANGED <<env, table, req, oracle, created>>

\* the statement returns or raises; finally: put_conn(conn); then the
\* return value or the exception goes on to the caller
PPutConn(t) ==
    /\ pc[t] = "try"
    /\ \E ok \in BOOLEAN :
         /\ CommitPool(put_conn(W))
         /\ table' = IF t = Main /\ ok THEN TRUE ELSE table
         /\ IF t = Main
            THEN /\ phase' = IF ok THEN "serving" ELSE "failed"
                 /\ startupExc' = IF ok THEN NoExc ELSE DatabaseError
                 /\ ensured' = IF ok THEN "True" ELSE "raised"
                 /\ UNCHANGED resp
            ELSE /\ resp' = IF ok THEN Http(200, << >>, << >>)
                            ELSE HandlerRaised(DatabaseError).resp
                 /\ UNCHANGED <<phase, startupExc, ensured>>
    /\ pc' = [pc EXCEPT ![t] = "idle"]
    /\ UNCHANGED <<env, req, oracle, created>>

\* shutdown_event, once no request is in flight
PShutdown ==
    /\ phase = "serving"
    /\ \A t \in Workers : pc[t] = "idle"
    /\ CommitPool(shutdown_event(W))
    /\ phase' = "stopped"
    /\ req' = Request("shutdown", NoBody, None)
    /\ UNCHANGED <<env, startupExc, ensured, table, oracle, resp, created, pc>>

\* the next step of a thread inside an adapter call
PStep(t) == PGetConn(t) \/ PPutConn(t)

PoolNext ==
    \/ PStartup
    \/ PShutdown
    \/ \E t \in Threads : PEnter(t) \/ PStep(t)

\* a thread inside an adapter call takes its next step; requests need not
\* arrive
PoolFair == \A t \in Threads : WF_vars(PStep(t))

PoolSpec == PoolInit /\ [][PoolNext]_vars /\ PoolFair


\* ---------------- LibSpec: the functions of dbcenter, called in any order
\* One caller, one call per action; an exception goes back to the caller.
LInitPool ==
    /\ \E o \in PoolOracles :
         /\ Commit(init_pool(W, env, o).w)
         /\ oracle' = o
    /\ req' = Request("init_pool", NoBody, None)
    /\ UNCHANGED <<env, phase, startupExc, ensured, resp, created, pc>>

LClosePool ==
    /\ Commit(close_pool(W))
    /\ req' = Request("close_pool", NoBody, None)
    /\ UNCHANGED <<env, phase, startupExc, ensured, oracle, resp, created, pc>>

LCreateClientsTable ==
    /\ \E o \in InsertOracles(env) :
         /\ Commit(create_clients_table(W, env, o).w)
         /\ oracle' = o
    /\ req' = Request("create_clients_table", NoBody, None)
    /\ UNCHANGED <<env, phase, startupExc, ensured, resp, created, pc>>

LInsertClient ==
    /\ \E body \in Bodies, o \in InsertOracles(env) :
         /\ Commit(insert_client(W, env, o, body.name, body.address, body.phone).w)
         /\ req' = Request("insert_client", body, None)
         /\ oracle' = o
    /\ UNCHANGED <<env, phase, startupExc, ensured, resp, created, pc>>

LGetClients ==
    /\ \E limit \in 0..MaxLimit, o \in SelectOracles(env) :
         /\ Commit(get_clients(W, env, o, limit).w)
         /\ req' = Request("get_clients", NoBody, Some(limit))
         /\ oracle' = o
    /\ UNCHANGED <<env, phase, startupExc, ensured, resp, created, pc>>

LibNext ==
    LInitPool \/ LClosePool \/ LCreateClientsTable \/ LInsertClient \/ LGetClients

LibSpec == Init /\ [][LibNext]_vars


\* ================================================================ claims
Outstanding == IF IsNone(pool) THEN 0 ELSE Val(pool).used

AllWhitespace(s) == \A i \in 1..Len(s) : s[i] \in Whitespace

\* the backend answered the last request without a failure of its own
BackendOk ==
    /\ table
    /\ IF env.hosted THEN oracle.reply.kind = "rows" ELSE oracle.stmt

LimitOf(r) == IF IsNone(r.limit) THEN DefaultLimit ELSE Val(r.limit)

Rank(r) == Cardinality({q \in rows : q.created_at > r.created_at}) + 1

\* C1: in direct-pool mode the connections checked out are exactly those of
\* the adapter calls still between get_conn and put_conn, so every call that
\* has completed, with a result or with an exception, has handed its
\* connection back once and none is outstanding when no call is running.
C1_AcquireReleasePaired ==
    Outstanding = Cardinality({t \in Threads : pc[t] = "try"})

\* C1 witness: a request whose statement failed has completed, nothing runs,
\* and the pool has no connection checked out
C1_Witness ==
    /\ phase = "serving"
    /\ \A t \in Threads : pc[t] = "idle"
    /\ resp = Http(500, DatabaseError.msg, << >>)
    /\ ~IsNone(pool)
    /\ Outstanding = 0

\* C2: a create request whose name is empty or only whitespace is answered
\* with a validation error by a step that enters no adapter function, leaves
\* the pool and the table as they were and records no created client.
C2_BlankNameRejectedFirst ==
    [][(req'.op = "create" /\ AllWhitespace(req'.body.name))
          => /\ resp'.status = 422
             /\ calls' = {}
             /\ pool' = pool
             /\ rows' = rows
             /\ created' = created]_vars

\* C2 witness: a whitespace-only name was rejected while the table held rows
C2_Witness ==
    /\ req.op = "create"
    /\ req.body.name = <<"\t", " ">>
    /\ resp.status = 422
    /\ rows # {}

\* C3 (as claimed): a list request on an empty table that the backend
\* answers successfully gets 200 with an empty sequence, in either mode and
\* for either shape of the hosted reply.
C3_EmptyListIsEmpty ==
    (req.op = "list" /\ rows = {} /\ BackendOk) => resp = Http(200, << >>, << >>)

\* C4 (as claimed): a list request on a table with n >= 1 rows that the
\* backend answers successfully gets 200 with exactly the min(limit, n) most
\* recent rows, most recent first.
C4_MostRecentFirst ==
    (req.op = "list" /\ rows # {} /\ BackendOk)
        => /\ resp.status = 200
           /\ Len(resp.body) = Min(LimitOf(req), Cardinality(rows))
           /\ \A i \in 1..Len(resp.body) :
                \E r \in rows : Rank(r) = i /\ resp.body[i].id = r.id

\* C5: every record a list returns is a client some create returned, with
\* the id, name, address and phone of that create response; a field the
\* create request omitted is null in the listed record.
C5_RoundTrip ==
    (req.op = "list" /\ resp.status = 200)
        => \A i \in 1..Len(resp.body) :
             \E c \in created :
                /\ c.out.id = resp.body[i].id
                /\ c.out.name = resp.body[i].name
                /\ c.out.address = resp.body[i].address
                /\ c.out.phone = resp.body[i].phone
                /\ IsNone(c.sent.address) => IsNone(resp.body[i].address)
                /\ IsNone(c.sent.phone) => IsNone(resp.body[i].phone)

\* C5 witness: a list returned two clients, one created without address and
\* phone, one created with both
C5_Witness ==
    /\ req.op = "list"
    /\ resp.status = 200
    /\ Len(resp.body) = 2
    /\ \E i, j \in 1..2 :
         /\ IsNone(resp.body[i].address) /\ IsNone(resp.body[i].phone)
         /\ resp.body[j].address = Some(<<"x">>) /\ resp.body[j].phone = Some(<< >>)

\* C6 (as claimed): in hosted-table mode no pool is ever constructed, and a
\* startup that fails does not fail on the relational driver or database.
C6_NoPoolWhenHosted ==
    env.hosted
        => /\ made = 0
           /\ IsNone(pool)
           /\ phase = "failed" => startupExc.type = "RuntimeError" /\ ~env.supabase /\ env.psycopg2

\* C7 (as claimed): whatever the order of the calls, one process constructs
\* at most one pool.
C7_OnePoolPerProcess == made <= 1

\* C8: in direct-pool mode every worker is idle again and again, that is, a
\* request that has entered an adapter call always comes out of it, however
\* many requests compete for the pool; and when its acquire fails the handler answers 500 with
\* the error's text (the pool's own message when the pool is exhausted) and
\* the number of connections checked out is what it was.
C8_NoRequestWaitsForever ==
    /\ \A t \in Workers : []<>(pc[t] = "idle")
    /\ [][\A t \in Workers :
            (pc[t] = "called" /\ pc'[t] = "idle")
                => /\ Outstanding' = Outstanding
                   /\ resp'.status = 500
                   /\ resp'.detail # << >>
                   /\ Outstanding = MAXCONN
                        => resp'.detail = <<"connection pool exhausted">>]_vars

\* C8 witness: every connection is checked out and a further request has
\* been answered with the pool's error
C8_Witness ==
    /\ Outstanding = MAXCONN
    /\ resp = Http(500, <<"connection pool exhausted">>, << >>)
    /\ \E t \in Workers : pc[t] = "idle"

\* C9 (as claimed): in hosted-table mode with the service client available,
\* a startup that finds the table missing or unreadable gets False from
\* create_clients_table and goes on to serve.
C9_MissingTableNotFatal ==
    (env.hosted /\ env.supabase /\ req.op = "startup"
        /\ (~table \/ oracle.reply.kind # "rows"))
        => /\ ensured = "False"
           /\ phase = "serving"

\* C10 (as claimed): in hosted-table mode an insert the service answers
\* without data is answered 500, with no record, and with a message that
\* ends in the service's error, or in "unknown" when it reported none.
C10_NoDataRaisesWithServiceError ==
    (env.hosted /\ req.op = "create" /\ ClientIn(req.body).ok
        /\ oracle.reply.kind = "nodata")
        => /\ resp.status = 500
           /\ resp.body = << >>
           /\ resp.detail = <<"Falha ao inserir no Supabase: ">>
                              \o (IF IsNone(oracle.reply.error) THEN <<"unknown">>
                                  ELSE Val(oracle.reply.error))

====
